---- MODULE Spec2Model ----
(***************************************************************************)
(* A model of solution.py: the pipeline that turns the free-text answer    *)
(* of a text-generation collaborator into a structured record.             *)
(*                                                                         *)
(* Python strings are sequences of one-character strings, so that          *)
(* lower(), strip(), substring tests and date parsing are computed.        *)
(* Python/JSON values are tagged records:                                  *)
(*   None, Bool(b), Num(n), Str(s), List(items), Obj(m)                    *)
(* where m is a function from key names to values.                         *)
(* A call's outcome is [exc |-> "none", val |-> v] or [exc |-> <name>].    *)
(***************************************************************************)
EXTENDS Integers, Sequences, FiniteSets, TLC

VARIABLES
    pc,             \* control position of the specification being run
    now,            \* the clock read by datetime.now(): [ord, secs]
    date_str,       \* validate_date: its argument
    normalized,     \* validate_date: its outcome
    data,           \* enforce_schema: its argument
    enforced,       \* enforce_schema: its outcome
    text,           \* infer_urgency: its first argument
    deadline,       \* infer_urgency: its second argument
    urgency,        \* infer_urgency: its result
    lines,          \* process_file: the lines read from the input file
    idx,            \* process_file: index of the line being processed
    results,        \* process_file: the list of output entries
    input_text,     \* process_text: its argument
    llm_response,   \* process_text: the collaborator's answer
    extracted_data, \* process_text: the parsed answer (or None)
    result,         \* process_text: the record being built
    exc             \* process_text: the exception that left it, or "none"

vars == <<pc, now, date_str, normalized, data, enforced, text, deadline,
          urgency, lines, idx, results, input_text, llm_response,
          extracted_data, result, exc>>

----------------------------------------------------------------------------
(* Strings *)

UpperChars == <<"A", "B", "C", "D", "E", "F", "G", "H", "I", "J", "K", "L", "M", "N", "O", "P", "Q", "R", "S", "T", "U", "V", "W", "X", "Y", "Z">>
LowerChars == <<"a", "b", "c", "d", "e", "f", "g", "h", "i", "j", "k", "l", "m", "n", "o", "p", "q", "r", "s", "t", "u", "v", "w", "x", "y", "z">>
DigitChars == <<"0", "1", "2", "3", "4", "5", "6", "7", "8", "9">>
Whitespace == {" ", "\t", "\n", "\r"}

SetMin(S) == CHOOSE x \in S : \A y \in S : x <= y
SetMax(S) == CHOOSE x \in S : \A y \in S : x >= y

IsIn(seq, c) == \E i \in 1..Len(seq) : seq[i] = c
IndexOf(seq, c) == CHOOSE i \in 1..Len(seq) : seq[i] = c

LowerChar(c) == IF IsIn(UpperChars, c) THEN LowerChars[IndexOf(UpperChars, c)] ELSE c

\* str.lower()
Lower(s) == IF s = <<>> THEN <<>> ELSE [i \in 1..Len(s) |-> LowerChar(s[i])]

\* str.strip()
Strip(s) ==
    LET keep == {i \in 1..Len(s) : s[i] \notin Whitespace}
    IN  IF keep = {} THEN <<>> ELSE SubSeq(s, SetMin(keep), SetMax(keep))

\* sub in s
Contains(s, sub) ==
    \E i \in 0..(Len(s) - Len(sub)) : SubSeq(s, i + 1, i + Len(sub)) = sub

\* s.startswith(pre)
StartsWith(s, pre) == Len(pre) <= Len(s) /\ SubSeq(s, 1, Len(pre)) = pre

IsDigit(c) == IsIn(DigitChars, c)
DigitVal(c) == IndexOf(DigitChars, c) - 1
AllDigits(s) == \A i \in 1..Len(s) : IsDigit(s[i])

RECURSIVE NumVal(_)
NumVal(s) == IF s = <<>> THEN 0
             ELSE NumVal(SubSeq(s, 1, Len(s) - 1)) * 10 + DigitVal(s[Len(s)])

RECURSIVE Pow10(_)
Pow10(k) == IF k = 0 THEN 1 ELSE 10 * Pow10(k - 1)

\* n written in decimal, zero-padded to width w (format spec 0wd)
Pad(n, w) == [i \in 1..w |-> DigitChars[((n \div Pow10(w - i)) % 10) + 1]]

\* the number of w digits at position i of s, or -1
NumField(s, i, w) ==
    IF i + w - 1 <= Len(s) /\ AllDigits(SubSeq(s, i, i + w - 1))
    THEN NumVal(SubSeq(s, i, i + w - 1)) ELSE -1

----------------------------------------------------------------------------
(* Python values *)

None == [t |-> "null"]
Bool(b) == [t |-> "bool", b |-> b]
Num(n) == [t |-> "num", n |-> n]
Str(s) == [t |-> "str", s |-> s]
List(items) == [t |-> "list", items |-> items]
Obj(m) == [t |-> "obj", m |-> m]

\* bool(v)
Truthy(v) ==
    CASE v.t = "null" -> FALSE
      [] v.t = "bool" -> v.b
      [] v.t = "num"  -> v.n # 0
      [] v.t = "str"  -> v.s # <<>>
      [] v.t = "list" -> v.items # <<>>
      [] v.t = "obj"  -> DOMAIN v.m # {}

Ret(v) == [exc |-> "none", val |-> v]
Raise(e) == [exc |-> e]

----------------------------------------------------------------------------
(* datetime *)

SecondsPerDay == 86400

IsLeap(y) == y % 4 = 0 /\ (y % 100 # 0 \/ y % 400 = 0)

DaysInMonth(y, m) ==
    IF m = 2 THEN (IF IsLeap(y) THEN 29 ELSE 28)
    ELSE IF m \in {4, 6, 9, 11} THEN 30 ELSE 31

RECURSIVE DaysBeforeMonth(_, _)
DaysBeforeMonth(y, m) ==
    IF m = 1 THEN 0 ELSE DaysBeforeMonth(y, m - 1) + DaysInMonth(y, m - 1)

DaysBeforeYear(y) ==
    (y - 1) * 365 + ((y - 1) \div 4) - ((y - 1) \div 100) + ((y - 1) \div 400)

\* date.toordinal()
Ordinal(y, m, d) == DaysBeforeYear(y) + DaysBeforeMonth(y, m) + d

\* the checks of the datetime constructor
ValidDateTime(dt) ==
    /\ dt.Y \in 1..9999 /\ dt.m \in 1..12 /\ dt.d \in 1..DaysInMonth(dt.Y, dt.m)
    /\ dt.H \in 0..23 /\ dt.M \in 0..59 /\ dt.S \in 0..59

NoDate == [ok |-> FALSE]
Midnight1900 == [ok |-> TRUE, Y |-> 1900, m |-> 1, d |-> 1, H |-> 0, M |-> 0, S |-> 0,
                 aware |-> FALSE, off |-> 0]

\* HH[:MM[:SS]] as fromisoformat reads a time or an offset: <<h, m, s>> or <<>>
IsoClock(t) ==
    LET n == Len(t)
        h == NumField(t, 1, 2)
        m == IF n >= 5 THEN NumField(t, 4, 2) ELSE 0
        s == IF n >= 8 THEN NumField(t, 7, 2) ELSE 0
    IN  IF /\ n \in {2, 5, 8}
           /\ h >= 0 /\ m >= 0 /\ s >= 0
           /\ (n >= 5 => t[3] = ":")
           /\ (n >= 8 => t[6] = ":")
        THEN <<h, m, s>> ELSE <<>>

\* datetime.fromisoformat(s): YYYY-MM-DD[*HH[:MM[:SS]][+HH:MM[:SS]]]
fromisoformat(s) ==
    LET n == Len(s)
        Y == NumField(s, 1, 4)
        m == NumField(s, 6, 2)
        d == NumField(s, 9, 2)
        tstr == SubSeq(s, 12, n)
        signs == {i \in 1..Len(tstr) : tstr[i] \in {"+", "-"}}
        tzpos == IF signs = {} THEN 0 ELSE SetMin(signs)
        timestr == IF tzpos = 0 THEN tstr ELSE SubSeq(tstr, 1, tzpos - 1)
        tzstr == IF tzpos = 0 THEN <<>> ELSE SubSeq(tstr, tzpos + 1, Len(tstr))
        clock == IF n = 10 THEN <<0, 0, 0>> ELSE IsoClock(timestr)
        tz == IF tzpos = 0 THEN <<0, 0, 0>> ELSE IsoClock(tzstr)
        sign == IF tzpos # 0 /\ tstr[tzpos] = "-" THEN -1 ELSE 1
    IN  IF \/ n < 10
           \/ Y < 0 \/ m < 0 \/ d < 0
           \/ s[5] # "-" \/ s[8] # "-"
           \/ clock = <<>> \/ tz = <<>>
        THEN NoDate
        ELSE LET dt == [ok |-> TRUE, Y |-> Y, m |-> m, d |-> d,
                        H |-> clock[1], M |-> clock[2], S |-> clock[3],
                        aware |-> tzpos # 0,
                        off |-> sign * (tz[1] * 3600 + tz[2] * 60 + tz[3])]
             IN  IF ValidDateTime(dt) /\ tz[1] <= 23 /\ tz[2] <= 59 /\ tz[3] <= 59
                 THEN dt ELSE NoDate

\* isoformat with the day written before the month
isoformat_swapped(dt) ==
    Pad(dt.Y, 4) \o <<"-">> \o Pad(dt.d, 2) \o <<"-">> \o Pad(dt.m, 2) \o <<"T">>
    \o Pad(dt.H, 2) \o <<":">> \o Pad(dt.M, 2) \o <<":">> \o Pad(dt.S, 2)

\* dt.isoformat() of a naive datetime without microseconds
isoformat(dt) ==
    Pad(dt.Y, 4) \o <<"-">> \o Pad(dt.m, 2) \o <<"-">> \o Pad(dt.d, 2) \o <<"T">>
    \o Pad(dt.H, 2) \o <<":">> \o Pad(dt.M, 2) \o <<":">> \o Pad(dt.S, 2)

MonthNames == << <<"j", "a", "n", "u", "a", "r", "y">>, <<"f", "e", "b", "r", "u", "a", "r", "y">>, <<"m", "a", "r", "c", "h">>, <<"a", "p", "r", "i", "l">>, <<"m", "a", "y">>, <<"j", "u", "n", "e">>,
                 <<"j", "u", "l", "y">>, <<"a", "u", "g", "u", "s", "t">>, <<"s", "e", "p", "t", "e", "m", "b", "e", "r">>, <<"o", "c", "t", "o", "b", "e", "r">>, <<"n", "o", "v", "e", "m", "b", "e", "r">>,
                 <<"d", "e", "c", "e", "m", "b", "e", "r">> >>

DirKey == ("%Y" :> "Y") @@ ("%m" :> "m") @@ ("%d" :> "d")
          @@ ("%H" :> "H") @@ ("%M" :> "M") @@ ("%S" :> "S")

\* the regular expression strptime compiles a numeric directive to
DirAccepts(f, w, v) ==
    CASE f = "%Y" -> w = 4
      [] f = "%m" -> (w = 2 /\ v \in 1..12) \/ (w = 1 /\ v \in 1..9)
      [] f = "%d" -> (w = 2 /\ v \in 1..31) \/ (w = 1 /\ v \in 1..9)
      [] f = "%H" -> (w = 2 /\ v \in 0..23) \/ (w = 1)
      [] f = "%M" -> (w = 2 /\ v \in 0..59) \/ (w = 1)
      [] f = "%S" -> (w = 2 /\ v \in 0..61) \/ (w = 1)

\* the match of format items j.. against s from position i, first alternative first
RECURSIVE Match(_, _, _, _, _)
Match(s, i, fmt, j, acc) ==
    IF j > Len(fmt) THEN (IF i > Len(s) THEN acc ELSE NoDate)
    ELSE
    LET f == fmt[j]
        Try(w) == LET v == NumField(s, i, w)
                  IN  IF v >= 0 /\ DirAccepts(f, w, v)
                      THEN Match(s, i + w, fmt, j + 1, [acc EXCEPT ![DirKey[f]] = v])
                      ELSE NoDate
        Blank == LET v == NumField(s, i + 1, 1)
                 IN  IF i <= Len(s) /\ s[i] = " " /\ v >= 1
                     THEN Match(s, i + 2, fmt, j + 1, [acc EXCEPT !.d = v])
                     ELSE NoDate
        Months == {k \in 1..12 :
                     /\ i + Len(MonthNames[k]) - 1 <= Len(s)
                     /\ Lower(SubSeq(s, i, i + Len(MonthNames[k]) - 1)) = MonthNames[k]}
        Spaces == {k \in 1..(Len(s) - i + 1) :
                     \A q \in i..(i + k - 1) : s[q] \in Whitespace}
    IN  CASE f = "%Y" -> Try(4)
          [] f \in {"%m", "%H", "%M", "%S"} ->
                IF Try(2).ok THEN Try(2) ELSE Try(1)
          [] f = "%d" ->
                IF Try(2).ok THEN Try(2) ELSE IF Try(1).ok THEN Try(1) ELSE Blank
          [] f = "%B" ->
                IF Months = {} THEN NoDate
                ELSE LET k == CHOOSE k \in Months : TRUE
                     IN  Match(s, i + Len(MonthNames[k]), fmt, j + 1, [acc EXCEPT !.m = k])
          [] f = " " ->
                IF Spaces = {} THEN NoDate
                ELSE Match(s, i + SetMax(Spaces), fmt, j + 1, acc)
          [] OTHER ->
                IF i <= Len(s) /\ LowerChar(s[i]) = LowerChar(f)
                THEN Match(s, i + 1, fmt, j + 1, acc) ELSE NoDate

\* datetime.strptime(s, fmt): the datetime, or NoDate for ValueError
strptime(s, fmt) ==
    LET dt == Match(s, 1, fmt, 1, Midnight1900)
    IN  IF dt.ok /\ ValidDateTime(dt) THEN dt ELSE NoDate

date_formats == <<
    <<"%Y", "-", "%m", "-", "%d">>,
    <<"%d", "-", "%m", "-", "%Y">>,
    <<"%m", "/", "%d", "/", "%Y">>,
    <<"%d", "/", "%m", "/", "%Y">>,
    <<"%B", " ", "%d", ",", " ", "%Y">>,
    <<"%d", " ", "%B", " ", "%Y">>,
    <<"%Y", "-", "%m", "-", "%d", "T", "%H", ":", "%M", ":", "%S">> >>

\* str.replace('Z', '+00:00')
RECURSIVE ReplaceZ(_)
ReplaceZ(s) ==
    IF s = <<>> THEN <<>>
    ELSE (IF Head(s) = "Z" THEN <<"+", "0", "0", ":", "0", "0">> ELSE <<Head(s)>>) \o ReplaceZ(Tail(s))

\* the first format of date_formats that parses s, or 0
FirstFormat(s) ==
    LET hits == {k \in 1..Len(date_formats) : strptime(s, date_formats[k]).ok}
    IN  IF hits = {} THEN 0 ELSE SetMin(hits)

validate_date(v) ==
    IF ~Truthy(v) THEN Ret(None)
    ELSE IF v.t # "str" THEN Raise("AttributeError")
    ELSE IF Lower(v.s) \in {<<"n", "u", "l", "l">>, <<"n", "o", "n", "e">>, <<>>} THEN Ret(None)
    ELSE IF fromisoformat(ReplaceZ(v.s)).ok THEN Ret(v)
    ELSE LET k == FirstFormat(v.s)
         IN  IF k = 0 THEN Ret(None)
             ELSE Ret(Str(isoformat(strptime(v.s, date_formats[k]))))

----------------------------------------------------------------------------
(* infer_urgency *)

high_keywords == << <<"u", "r", "g", "e", "n", "t">>, <<"u", "r", "g", "e", "n", "t", "l", "y">>, <<"a", "s", "a", "p">>, <<"a", "s", " ", "s", "o", "o", "n", " ", "a", "s", " ", "p", "o", "s", "s", "i", "b", "l", "e">>,
                    <<"i", "m", "m", "e", "d", "i", "a", "t", "e", "l", "y">>, <<"c", "r", "i", "t", "i", "c", "a", "l">>, <<"e", "m", "e", "r", "g", "e", "n", "c", "y">>, <<"r", "u", "s", "h">> >>
medium_keywords == << <<"s", "o", "o", "n">>, <<"p", "r", "i", "o", "r", "i", "t", "y">>, <<"i", "m", "p", "o", "r", "t", "a", "n", "t">>, <<"n", "e", "e", "d", "e", "d">> >>

HighDays == 7
MediumDays == 30

\* any(keyword in text_lower for keyword in keywords)
AnyKeyword(text_lower, keywords) ==
    \E k \in 1..Len(keywords) : Contains(text_lower, keywords[k])

\* (deadline_date - datetime.now(deadline_date.tzinfo)).total_seconds():
\* clock is the present instant, read on the local clock for a naive deadline
\* and shifted by the deadline's own offset for an aware one, so the offset
\* cancels out of the difference of the two instants
SecondsUntil(dt, clock) ==
    (Ordinal(dt.Y, dt.m, dt.d) - clock.ord) * SecondsPerDay
    + (dt.H * 3600 + dt.M * 60 + dt.S - dt.off) - clock.secs

\* timedelta.days: whole days, rounded towards minus infinity
days_until(dt, clock) == SecondsUntil(dt, clock) \div SecondsPerDay

\* the deadline as infer_urgency reads it: a datetime, or NoDate when the
\* deadline is falsy or the try block ends in ValueError / AttributeError
DeadlineDate(dl) ==
    IF Truthy(dl) /\ dl.t = "str" THEN fromisoformat(ReplaceZ(dl.s)) ELSE NoDate

\* infer_urgency with the medium keywords tested before the deadline
infer_urgency_keywords_first(txt, dl, clock) ==
    LET text_lower == Lower(txt)
        dt == DeadlineDate(dl)
    IN  IF AnyKeyword(text_lower, high_keywords) THEN <<"h", "i", "g", "h">>
        ELSE IF AnyKeyword(text_lower, medium_keywords) THEN <<"m", "e", "d", "i", "u", "m">>
        ELSE IF dt.ok /\ days_until(dt, clock) < HighDays THEN <<"h", "i", "g", "h">>
        ELSE IF dt.ok /\ days_until(dt, clock) < MediumDays THEN <<"m", "e", "d", "i", "u", "m">>
        ELSE <<"l", "o", "w">>

infer_urgency(txt, dl, clock) ==
    LET text_lower == Lower(txt)
        dt == DeadlineDate(dl)
    IN  IF AnyKeyword(text_lower, high_keywords) THEN <<"h", "i", "g", "h">>
        ELSE IF dt.ok /\ days_until(dt, clock) < HighDays THEN <<"h", "i", "g", "h">>
        ELSE IF dt.ok /\ days_until(dt, clock) < MediumDays THEN <<"m", "e", "d", "i", "u", "m">>
        ELSE IF AnyKeyword(text_lower, medium_keywords) THEN <<"m", "e", "d", "i", "u", "m">>
        ELSE <<"l", "o", "w">>

----------------------------------------------------------------------------
(* enforce_schema *)

\* the keys of schema_fields, in the order the loop visits them
schema_fields == <<"material_name", "quantity", "unit", "project_name",
                   "location", "urgency", "deadline">>
FieldSet == {schema_fields[k] : k \in 1..Len(schema_fields)}

\* the text of a key: field names and the other keys the inputs use
KeyText == [material_name |-> <<"m", "a", "t", "e", "r", "i", "a", "l", "_", "n", "a", "m", "e">>, quantity |-> <<"q", "u", "a", "n", "t", "i", "t", "y">>,
            unit |-> <<"u", "n", "i", "t">>, project_name |-> <<"p", "r", "o", "j", "e", "c", "t", "_", "n", "a", "m", "e">>,
            location |-> <<"l", "o", "c", "a", "t", "i", "o", "n">>, urgency |-> <<"u", "r", "g", "e", "n", "c", "y">>,
            deadline |-> <<"d", "e", "a", "d", "l", "i", "n", "e">>, notes |-> <<"n", "o", "t", "e", "s">>,
            confidence |-> <<"c", "o", "n", "f", "i", "d", "e", "n", "c", "e">>]

\* the defaults schema_fields gives to a missing key
SchemaDefault(f) == IF f = "urgency" THEN Str(<<"l", "o", "w">>) ELSE None

Urgencies == {Str(<<"l", "o", "w">>), Str(<<"m", "e", "d", "i", "u", "m">>), Str(<<"h", "i", "g", "h">>)}

\* field in data: "yes", "no", or the TypeError of a value that is no container
HasField(d, f) ==
    CASE d.t = "obj"  -> IF f \in DOMAIN d.m THEN "yes" ELSE "no"
      [] d.t = "list" -> IF \E k \in 1..Len(d.items) : d.items[k] = Str(KeyText[f])
                         THEN "yes" ELSE "no"
      [] d.t = "str"  -> IF Contains(d.s, KeyText[f]) THEN "yes" ELSE "no"
      [] OTHER        -> "TypeError"

\* float(s) for a string in decimal integer notation (blanks around it and a
\* sign allowed); any other text of the inputs is a ValueError
ParseFloat(s) ==
    LET t == Strip(s)
        signed == t # <<>> /\ t[1] \in {"+", "-"}
        digits == IF signed THEN Tail(t) ELSE t
    IN  IF digits # <<>> /\ AllDigits(digits)
        THEN Ret(Num((IF signed /\ t[1] = "-" THEN -1 ELSE 1) * NumVal(digits)))
        ELSE Raise("ValueError")

\* float(value) if value is not None else 0, with ValueError and TypeError caught
CoerceQuantity(value) ==
    CASE value.t = "null" -> Num(0)
      [] value.t = "num"  -> value
      [] value.t = "bool" -> Num(IF value.b THEN 1 ELSE 0)
      [] value.t = "str"  -> IF ParseFloat(value.s).exc = "none"
                             THEN ParseFloat(value.s).val ELSE Num(0)
      [] OTHER            -> Num(0)

\* the urgency branch resetting every value to the default
CoerceUrgency_reset(value) == SchemaDefault("urgency")

\* value if value in ["low", "medium", "high"] else the default
CoerceUrgency(value) ==
    IF value \in Urgencies THEN value ELSE SchemaDefault("urgency")

\* the body of the loop for one field: the value stored, or the exception raised
FieldValue(d, f) ==
    LET has == HasField(d, f)
    IN  IF has = "TypeError" THEN Raise("TypeError")
        ELSE IF has = "no" THEN Ret(SchemaDefault(f))
        ELSE IF d.t # "obj" THEN Raise("TypeError")
        ELSE LET value == d.m[f]
             IN  CASE f = "quantity" -> Ret(CoerceQuantity(value))
                   [] f = "urgency"  -> Ret(CoerceUrgency(value))
                   [] f = "deadline" -> validate_date(value)
                   [] OTHER          -> Ret(value)

\* the required-field backstops applied after the loop
Backstop(r) ==
    [r EXCEPT !.material_name = IF Truthy(@) THEN @ ELSE Str(<<"U", "n", "k", "n", "o", "w", "n">>),
              !.quantity = IF @ = None THEN Num(0) ELSE @,
              !.unit = IF Truthy(@) THEN @ ELSE Str(<<"u", "n", "i", "t", "s">>)]

\* enforce_schema without the whitelist: the unknown keys of a mapping are copied
enforce_schema_unfiltered(d) ==
    LET keys == FieldSet \cup (IF d.t = "obj" THEN DOMAIN d.m ELSE {})
        out == [f \in keys |-> FieldValue(d, f)]
        bad == {k \in 1..Len(schema_fields) : out[schema_fields[k]].exc # "none"}
    IN  IF bad # {} THEN Raise(out[schema_fields[SetMin(bad)]].exc)
        ELSE Ret(Obj(Backstop([f \in keys |-> out[f].val])))

enforce_schema(d) ==
    LET out == [f \in FieldSet |-> FieldValue(d, f)]
        bad == {k \in 1..Len(schema_fields) : out[schema_fields[k]].exc # "none"}
    IN  IF bad # {} THEN Raise(out[schema_fields[SetMin(bad)]].exc)
        ELSE Ret(Obj(Backstop([f \in FieldSet |-> out[f].val])))

\* SCHEMA: whether jsonschema accepts the value of a property
TypeOk(f, v) ==
    CASE f \in {"material_name", "unit"} -> v.t = "str"
      [] f = "quantity" -> v.t = "num"
      [] f = "urgency" -> v \in Urgencies
      [] OTHER -> v.t \in {"str", "null"}

\* SCHEMA: an object with the seven required properties and no others
Conforms(v) ==
    /\ v.t = "obj"
    /\ DOMAIN v.m = FieldSet
    /\ \A f \in FieldSet : TypeOk(f, v.m[f])

----------------------------------------------------------------------------
(* extract_json_from_text *)

(* The collaborator's answer is a text holding at most one JSON document:     *)
(*   [wrap |-> "bare",   body |-> b]  the text is the document                *)
(*   [wrap |-> "fenced", body |-> b]  prose, then the document in a ``` fence *)
(*   [wrap |-> "prose",  body |-> b]  the document between words of prose     *)
(* b is the value json.loads reads from the document, Broken for a document   *)
(* json.loads rejects (truncated, single quotes), NoJson when there is none.  *)
(* Prose and string values hold no braces, and an object nested three deep    *)
(* has one member.                                                            *)
Broken == [t |-> "broken"]
NoJson == [t |-> "nojson"]

IsJson(b) == b.t \in {"null", "bool", "num", "str", "list", "obj"}

\* the values of the keys K of an object's members m, as a sequence
RECURSIVE Members(_, _)
Members(m, K) ==
    IF K = {} THEN <<>>
    ELSE LET key == CHOOSE x \in K : TRUE
         IN  <<m[key]>> \o Members(m, K \ {key})

\* the values directly inside a list or an object, lists in their order
Children(v) ==
    CASE v.t = "list" -> v.items
      [] v.t = "obj"  -> Members(v.m, DOMAIN v.m)
      [] OTHER        -> <<>>

\* how deep braces nest in the text of a value
RECURSIVE BraceDepth(_)
BraceDepth(v) ==
    LET kids == Children(v)
        below == IF kids = <<>> THEN 0
                 ELSE SetMax({BraceDepth(kids[k]) : k \in 1..Len(kids)})
    IN  IF v.t = "obj" THEN 1 + below ELSE below

\* strategy 3: the leftmost span the pattern \{[^{}]*(?:\{[^{}]*\}[^{}]*)*\}
\* matches, an object whose braces nest at most two deep, or NoJson
RECURSIVE BraceSpan(_)
BraceSpan(v) ==
    IF v.t = "obj" /\ BraceDepth(v) <= 2 THEN v
    ELSE LET kids == Children(v)
             hits == {k \in 1..Len(kids) : BraceSpan(kids[k]) # NoJson}
         IN  IF hits = {} THEN NoJson ELSE BraceSpan(kids[SetMin(hits)])

\* the parsed document, or None
extract_json_from_text(resp) ==
    IF resp.wrap = "bare" /\ IsJson(resp.body) THEN resp.body
    ELSE IF resp.wrap = "fenced" /\ resp.body.t = "obj" THEN resp.body
    ELSE IF IsJson(resp.body) /\ BraceSpan(resp.body) # NoJson THEN BraceSpan(resp.body)
    ELSE None

----------------------------------------------------------------------------
(* process_text and process_file *)

\* the fallback record of process_text
DefaultRecord ==
    Obj([material_name |-> Str(<<"U", "n", "k", "n", "o", "w", "n">>), quantity |-> Num(0), unit |-> Str(<<"u", "n", "i", "t", "s">>),
         project_name |-> None, location |-> None, urgency |-> Str(<<"l", "o", "w">>),
         deadline |-> None])

\* "urgency" in str(e): the ValidationError of a property shows the repr of the
\* offending value, the property's name and its sub-schema
RECURSIVE MentionsUrgency(_)
MentionsUrgency(v) ==
    CASE v.t = "str"  -> Contains(v.s, <<"u", "r", "g", "e", "n", "c", "y">>)
      [] v.t = "list" -> \E k \in 1..Len(v.items) : MentionsUrgency(v.items[k])
      [] v.t = "obj"  -> \E k \in DOMAIN v.m :
                            Contains(KeyText[k], <<"u", "r", "g", "e", "n", "c", "y">>) \/ MentionsUrgency(v.m[k])
      [] OTHER        -> FALSE

\* the properties of the record jsonschema reports an error for
Invalid(r) == {f \in FieldSet : ~TypeOk(f, r.m[f])}

\* str(e) of the exceptions enforce_schema raises
ErrorText == [TypeError |-> <<"a", "r", "g", "u", "m", "e", "n", "t", " ", "o", "f", " ", "t", "y", "p", "e", " ", "'", "i", "n", "t", "'", " ", "i", "s", " ", "n", "o", "t", " ", "i", "t", "e", "r", "a", "b", "l", "e">>,
              AttributeError |-> <<"'", "i", "n", "t", "'", " ", "o", "b", "j", "e", "c", "t", " ", "h", "a", "s", " ", "n", "o", " ", "a", "t", "t", "r", "i", "b", "u", "t", "e", " ", "'", "l", "o", "w", "e", "r", "'">>]

\* the entry of a line whose processing raised
ErrorEntry(line, e) ==
    Obj(("_input" :> Str(line)) @@ ("_error" :> Str(ErrorText[e])) @@ DefaultRecord.m)

\* result["_input"] = line
WithInput(r, line) == Obj(("_input" :> Str(line)) @@ r.m)

\* not line or line.startswith('#'), for the stripped line
Skipped(line) == line = <<>> \/ StartsWith(line, <<"#">>)

----------------------------------------------------------------------------
(* Idle values of the variables a specification does not use *)

dateVars == <<date_str, normalized>>
enforceVars == <<data, enforced>>
urgencyVars == <<text, deadline, urgency>>
fileVars == <<lines, idx, results>>
textVars == <<input_text, llm_response, extracted_data, result, exc>>

Epoch == [ord |-> 1, secs |-> 0]

DateIdle == date_str = None /\ normalized = <<>>
EnforceIdle == data = None /\ enforced = <<>>
UrgencyIdle == text = <<>> /\ deadline = None /\ urgency = <<>>
FileIdle == lines = <<>> /\ idx = 0 /\ results = <<>>
TextIdle == /\ input_text = <<>> /\ llm_response = None /\ extracted_data = None
            /\ result = None /\ exc = "none"

----------------------------------------------------------------------------
(* SpecDate: validate_date applied to a date string, then to its own output *)

MonthTitles == << <<"J", "a", "n", "u", "a", "r", "y">>, <<"F", "e", "b", "r", "u", "a", "r", "y">>, <<"M", "a", "r", "c", "h">>, <<"A", "p", "r", "i", "l">>, <<"M", "a", "y">>, <<"J", "u", "n", "e">>,
                  <<"J", "u", "l", "y">>, <<"A", "u", "g", "u", "s", "t">>, <<"S", "e", "p", "t", "e", "m", "b", "e", "r">>, <<"O", "c", "t", "o", "b", "e", "r">>, <<"N", "o", "v", "e", "m", "b", "e", "r">>,
                  <<"D", "e", "c", "e", "m", "b", "e", "r">> >>

\* n in decimal: as written (w = 1) or zero-padded to two digits (w = 2)
Fld(n, w) == IF w = 1 /\ n < 10 THEN Pad(n, 1) ELSE Pad(n, 2)

DateYears == {2023, 2024}
DateMonths == {0, 2, 3, 6, 12, 13}
DateDays == {0, 5, 12, 29, 30, 31, 32}
DateClocks == {<<0, 0, 0>>, <<9, 5, 7>>, <<23, 59, 59>>, <<24, 0, 0>>}
Widths == {1, 2}

Sep3(a, x, b, y, c) == a \o x \o b \o y \o c

NumericDates ==
    UNION {{ Sep3(Pad(y, 4), <<"-">>, Fld(m, w), <<"-">>, Fld(d, w)),
             Sep3(Fld(d, w), <<"-">>, Fld(m, w), <<"-">>, Pad(y, 4)),
             Sep3(Fld(m, w), <<"/">>, Fld(d, w), <<"/">>, Pad(y, 4)),
             Sep3(Fld(d, w), <<"/">>, Fld(m, w), <<"/">>, Pad(y, 4)),
             Sep3(Fld(d, w), <<".">>, Fld(m, w), <<".">>, Pad(y, 4)) }
           : <<y, m, d, w>> \in DateYears \X DateMonths \X DateDays \X Widths}

NamedDates ==
    UNION {{ MonthTitles[m] \o <<" ">> \o Fld(d, w) \o <<",", " ">> \o Pad(y, 4),
             Fld(d, w) \o <<" ">> \o Lower(MonthTitles[m]) \o <<" ">> \o Pad(y, 4),
             MonthTitles[m] \o <<" ">> \o Fld(d, w) \o <<" ">> \o Pad(y, 4) }
           : <<y, m, d, w>> \in DateYears \X (DateMonths \cap 1..12) \X DateDays \X Widths}

TimedDates ==
    UNION {{ Sep3(Pad(2024, 4), <<"-">>, Fld(3, w), <<"-">>, Fld(d, w)) \o <<"T">>
                \o Sep3(Fld(c[1], w), <<":">>, Fld(c[2], w), <<":">>, Fld(c[3], w)) \o z
             : z \in {<<>>, <<"Z">>, <<"+", "0", "5", ":", "3", "0">>, <<"-", "0", "8", ":", "0", "0">>} }
           : <<d, c, w>> \in {5, 31, 32} \X DateClocks \X Widths}

OddDates == { <<>>, <<"n", "u", "l", "l">>, <<"N", "U", "L", "L">>, <<"N", "o", "n", "e">>, <<" ">>, <<"t", "o", "m", "o", "r", "r", "o", "w">>, <<"n", "e", "x", "t", " ", "w", "e", "e", "k">>,
              <<"Z">>, <<"2", "0", "2", "4">>, <<"2", "0", "2", "4", "-", "0", "3">>, <<"2", "0", "2", "4", "-", "0", "3", "-", "1", "5", "T">>, <<"2", "0", "2", "4", "-", "0", "3", "-", "1", "5", "T", "1", "0">>,
              <<"2", "0", "2", "4", "-", "0", "3", "-", "1", "5", " ", "1", "0", ":", "3", "0">>, <<" ", "5", "-", "0", "3", "-", "2", "0", "2", "4">>, <<"1", "5", "-", "0", "3", "-", "2", "0", "2", "4", " ">>, <<"2", "0", "2", "4", "-", "0", "3", "-", "1", "5", "t", "1", "0", ":", "0", "0", ":", "0", "0">> }

DateInputs == NumericDates \cup NamedDates \cup TimedDates \cup OddDates

DateInit ==
    /\ pc = "date"
    /\ now = Epoch
    /\ date_str \in {Str(s) : s \in DateInputs} \cup {None}
    /\ normalized = <<>>
    /\ EnforceIdle /\ UrgencyIdle /\ FileIdle /\ TextIdle

\* normalized = validate_date(date_str)
Normalize ==
    /\ pc = "date"
    /\ normalized = <<>>
    /\ normalized' = <<validate_date(date_str)>>
    /\ UNCHANGED <<pc, now, date_str, enforceVars, urgencyVars, fileVars, textVars>>

\* the non-null output is fed to validate_date again
Renormalize ==
    /\ pc = "date"
    /\ Len(normalized) = 1
    /\ normalized[1].val # None
    /\ normalized' = Append(normalized, validate_date(normalized[1].val))
    /\ UNCHANGED <<pc, now, date_str, enforceVars, urgencyVars, fileVars, textVars>>

DateNext == Normalize \/ Renormalize

SpecDate == DateInit /\ [][DateNext]_vars

\* C6: feeding the Date Normalizer its own non-null output returns the same value,
\* whether the first call accepted the string as ISO or converted it through one
\* of the fallback formats.
C6_RoundTrip ==
    Len(normalized) = 2 => normalized[2] = normalized[1]

\* a string converted through a fallback format was normalised a second time
C6_Witness ==
    /\ Len(normalized) = 2
    /\ normalized[1].val # date_str
    /\ FirstFormat(date_str.s) = 4

----------------------------------------------------------------------------
(* SpecUrgency: infer_urgency applied to a text, a deadline and a clock *)

Texts == { <<"N", "e", "e", "d", " ", "5", " ", "b", "a", "g", "s", " ", "o", "f", " ", "c", "e", "m", "e", "n", "t", " ", "f", "o", "r", " ", "P", "r", "o", "j", "e", "c", "t", " ", "A", "l", "p", "h", "a">>,
           <<"U", "R", "G", "E", "N", "T", ":", " ", "n", "e", "e", "d", " ", "2", "5", "m", "m", " ", "s", "t", "e", "e", "l", " ", "b", "a", "r", "s">>,
           <<"D", "e", "l", "i", "v", "e", "r", " ", "1", "0", " ", "t", "o", "n", "s", " ", "o", "f", " ", "s", "a", "n", "d", " ", "A", "S", "A", "P">>,
           <<"C", "e", "m", "e", "n", "t", " ", "n", "e", "e", "d", "e", "d", " ", "s", "o", "o", "n">>,
           <<"m", "o", "n", "s", "o", "o", "n", " ", "c", "o", "v", "e", "r", "s", ",", " ", "3", " ", "u", "n", "i", "t", "s">>,
           <<"I", "m", "p", "o", "r", "t", "a", "n", "t", ":", " ", "4", "0", " ", "b", "a", "g", "s">>,
           <<"c", "r", "u", "s", "h", "e", "d", " ", "s", "t", "o", "n", "e", ",", " ", "2", " ", "t", "r", "u", "c", "k", "l", "o", "a", "d", "s">>,
           <<"P", "r", "i", "o", "r", "i", "t", "y", " ", "o", "r", "d", "e", "r", " ", "f", "o", "r", " ", "s", "i", "t", "e", " ", "B">>,
           <<"a", "s", " ", "S", "o", "o", "n", " ", "A", "s", " ", "P", "o", "s", "s", "i", "b", "l", "e", " ", "p", "l", "e", "a", "s", "e">>,
           <<>> }

\* the clock: 2024-03-01 at midnight, mid-morning and the last second of the day
Clocks == { [ord |-> Ordinal(2024, 3, 1), secs |-> s] : s \in {0, 37800, 86399} }

IsoDate(y, m, d) == Sep3(Pad(y, 4), <<"-">>, Pad(m, 2), <<"-">>, Pad(d, 2))

DeadlineDays == { <<2, 20>>, <<3, 1>>, <<3, 2>>, <<3, 4>>, <<3, 7>>, <<3, 8>>, <<3, 9>>,
                  <<3, 21>>, <<3, 30>>, <<3, 31>>, <<4, 1>>, <<4, 30>> }
DeadlineTimes == { <<>>, <<"T", "0", "0", ":", "0", "0", ":", "0", "0">>, <<"T", "1", "2", ":", "0", "0", ":", "0", "0">>, <<"T", "2", "3", ":", "5", "9", ":", "5", "9", "Z">>,
                   <<"T", "0", "6", ":", "0", "0", ":", "0", "0", "+", "0", "5", ":", "3", "0">>, <<"T", "2", "0", ":", "0", "0", ":", "0", "0", "-", "0", "8", ":", "0", "0">> }

Deadlines ==
    { Str(IsoDate(2024, md[1], md[2]) \o t) : md \in DeadlineDays, t \in DeadlineTimes }
    \cup { None, Str(<<>>), Str(<<"t", "o", "m", "o", "r", "r", "o", "w">>), Str(<<"1", "5", "-", "0", "3", "-", "2", "0", "2", "4">>), Str(<<"2", "0", "2", "4", "-", "0", "2", "-", "3", "0">>),
           Num(20240315), Bool(TRUE), List(<<Str(<<"2", "0", "2", "4", "-", "0", "3", "-", "0", "4">>)>>) }

UrgencyInit ==
    /\ pc = "urgency"
    /\ now \in Clocks
    /\ text \in Texts
    /\ deadline \in Deadlines
    /\ urgency = <<>>
    /\ DateIdle /\ EnforceIdle /\ FileIdle /\ TextIdle

\* urgency = infer_urgency(text, deadline)
Infer ==
    /\ pc = "urgency"
    /\ urgency = <<>>
    /\ urgency' = infer_urgency(text, deadline, now)
    /\ UNCHANGED <<pc, now, text, deadline, dateVars, enforceVars, fileVars, textVars>>

UrgencyNext == Infer

SpecUrgency == UrgencyInit /\ [][UrgencyNext]_vars

HasHigh == AnyKeyword(Lower(text), high_keywords)
HasMedium == AnyKeyword(Lower(text), medium_keywords)
Parsed == DeadlineDate(deadline)

\* the days from today's date to the deadline's date, both in the deadline's zone
CalendarDays ==
    Ordinal(Parsed.Y, Parsed.m, Parsed.d)
    - (now.ord + ((now.secs + Parsed.off) \div SecondsPerDay))

\* the rules of the classifier with a given count of days until the deadline
ByRules(days) ==
    IF HasHigh THEN <<"h", "i", "g", "h">>
    ELSE IF Parsed.ok /\ days < HighDays THEN <<"h", "i", "g", "h">>
    ELSE IF Parsed.ok /\ days < MediumDays THEN <<"m", "e", "d", "i", "u", "m">>
    ELSE IF HasMedium THEN <<"m", "e", "d", "i", "u", "m">>
    ELSE <<"l", "o", "w">>

\* C8 as stated: first match wins among (1) a high keyword, (2) a parseable
\* deadline fewer than 7 (high) or 30 (medium) calendar days away, (3) a medium
\* keyword, (4) low.
C8_CalendarDays ==
    urgency # <<>> => urgency = ByRules(IF Parsed.ok THEN CalendarDays ELSE 0)

\* C8 amended: first match wins among (1) a high keyword gives high; (2) a
\* parseable deadline gives high when less than 7 times 24 hours remain until it
\* (a past deadline included) and medium when less than 30 times 24 hours remain;
\* (3) a medium keyword gives medium; (4) low.  A deadline 3 calendar days out is
\* high, 20 days out is medium, 60 days out without keywords is low, and an
\* unparseable deadline leaves the keywords to decide.
C8_ElapsedDays ==
    urgency # <<>> =>
        LET left == SecondsUntil(Parsed, now)
            soon == Parsed.ok /\ left < HighDays * SecondsPerDay
            near == Parsed.ok /\ left < MediumDays * SecondsPerDay
        IN  /\ HasHigh => urgency = <<"h", "i", "g", "h">>
            /\ ~HasHigh /\ soon => urgency = <<"h", "i", "g", "h">>
            /\ ~HasHigh /\ ~soon /\ near => urgency = <<"m", "e", "d", "i", "u", "m">>
            /\ ~HasHigh /\ ~near /\ HasMedium => urgency = <<"m", "e", "d", "i", "u", "m">>
            /\ ~HasHigh /\ ~near /\ ~HasMedium => urgency = <<"l", "o", "w">>
            /\ Parsed.ok /\ ~HasHigh /\ CalendarDays = 3 => urgency = <<"h", "i", "g", "h">>
            /\ Parsed.ok /\ ~HasHigh /\ CalendarDays = 20 => urgency = <<"m", "e", "d", "i", "u", "m">>
            /\ Parsed.ok /\ ~HasHigh /\ ~HasMedium /\ CalendarDays = 60 => urgency = <<"l", "o", "w">>

\* a deadline exactly seven calendar days ahead, read during the day, without a
\* high keyword but with a medium one: the deadline rule decided, and gave high
C8_Witness ==
    /\ urgency = <<"h", "i", "g", "h">>
    /\ ~HasHigh /\ HasMedium
    /\ Parsed.ok /\ CalendarDays = 7 /\ now.secs > 0

----------------------------------------------------------------------------
(* SpecEnforce: enforce_schema applied to a mapping, then to its own output *)

MaterialValues == {Str(<<"S", "t", "e", "e", "l", " ", "b", "a", "r", "s">>), Str(<<>>), None, Num(42)}
QuantityValues == {Num(10), Num(0), Num(-5), Str(<<"2", "5">>), Str(<<" ", "-", "3", " ">>), Str(<<"t", "e", "n">>),
                   None, Bool(TRUE)}
UnitValues == {Str(<<"b", "a", "g", "s">>), Str(<<>>), Num(3)}
ProjectValues == {None, Str(<<"A", "l", "p", "h", "a">>)}
LocationValues == {None, List(<<Str(<<"M", "u", "m", "b", "a", "i">>)>>)}
UrgencyValues == {Str(<<"l", "o", "w">>), Str(<<"h", "i", "g", "h">>), Str(<<"H", "I", "G", "H">>), Num(1)}
DeadlineValues == {None, Str(<<"2", "0", "2", "4", "-", "0", "3", "-", "1", "5">>), Str(<<"2", "0", "2", "4", "-", "0", "3", "-", "1", "5", "T", "1", "0", ":", "0", "0", ":", "0", "0", "Z">>),
                   Str(<<"1", "5", "-", "0", "3", "-", "2", "0", "2", "4">>), Str(<<"t", "o", "m", "o", "r", "r", "o", "w">>), Str(<<>>), Num(20240315)}

FullMappings ==
    { Obj([material_name |-> mv, quantity |-> qv, unit |-> uv, project_name |-> pv,
           location |-> lv, urgency |-> gv, deadline |-> dv]) :
      <<mv, qv, uv, pv, lv, gv, dv>> \in
          MaterialValues \X QuantityValues \X UnitValues \X ProjectValues
          \X LocationValues \X UrgencyValues \X DeadlineValues }

Sample == [material_name |-> Str(<<"C", "e", "m", "e", "n", "t">>), quantity |-> Num(5), unit |-> Str(<<"k", "g">>),
           project_name |-> Str(<<"B", "e", "t", "a">>), location |-> Str(<<"P", "u", "n", "e">>),
           urgency |-> Str(<<"m", "e", "d", "i", "u", "m">>), deadline |-> Str(<<"M", "a", "r", "c", "h", " ", "5", ",", " ", "2", "0", "2", "4">>),
           notes |-> Str(<<"c", "a", "l", "l", " ", "f", "i", "r", "s", "t">>), confidence |-> Num(1)]

\* the sample with some keys missing and some extra keys present
PartialMappings ==
    { Obj([k \in K |-> Sample[k]]) : K \in SUBSET (DOMAIN Sample) }

OtherData == { None, Num(7), Bool(TRUE), Str(<<"n", "o", " ", "m", "a", "t", "e", "r", "i", "a", "l", "_", "n", "a", "m", "e", " ", "g", "i", "v", "e", "n">>), Str(<<"n", "/", "a">>),
               List(<<Str(<<"q", "u", "a", "n", "t", "i", "t", "y">>), Num(3)>>), List(<<Num(1), Num(2)>>) }

EnforceInputs == FullMappings \cup PartialMappings \cup OtherData

EnforceInit ==
    /\ pc = "enforce"
    /\ now = Epoch
    /\ data \in EnforceInputs
    /\ enforced = <<>>
    /\ DateIdle /\ UrgencyIdle /\ FileIdle /\ TextIdle

\* enforced = enforce_schema(data)
Enforce ==
    /\ pc = "enforce"
    /\ enforced = <<>>
    /\ enforced' = <<enforce_schema(data)>>
    /\ UNCHANGED <<pc, now, data, dateVars, urgencyVars, fileVars, textVars>>

\* the record returned is enforced again
Reenforce ==
    /\ pc = "enforce"
    /\ Len(enforced) = 1
    /\ enforced[1].exc = "none"
    /\ enforced' = Append(enforced, enforce_schema(enforced[1].val))
    /\ UNCHANGED <<pc, now, data, dateVars, urgencyVars, fileVars, textVars>>

EnforceNext == Enforce \/ Reenforce

SpecEnforce == EnforceInit /\ [][EnforceNext]_vars

\* C4: in every record enforce_schema produces, quantity is a number >= 0.
C4_QuantityNonNegative ==
    \A k \in 1..Len(enforced) :
        enforced[k].exc = "none" =>
            /\ enforced[k].val.m.quantity.t = "num"
            /\ enforced[k].val.m.quantity.n >= 0

Settled(r) ==
    /\ Conforms(r)
    /\ r.m.material_name.s # <<>>
    /\ r.m.unit.s # <<>>
    /\ \/ r.m.deadline = None
       \/ fromisoformat(ReplaceZ(r.m.deadline.s)).ok

----------------------------------------------------------------------------
(* Spec: process_file over an input file, line by line through process_text *)

MaxLines == 2

\* lines as readlines() returns them
FileLines == { <<"\n">>, <<" ", " ", "#", " ", "s", "t", "e", "e", "l", " ", "o", "r", "d", "e", "r", "s", "\n">>, <<" ", " ", "N", "e", "e", "d", " ", "5", " ", "b", "a", "g", "s", " ", "o", "f", " ", "c", "e", "m", "e", "n", "t", " ", "u", "r", "g", "e", "n", "t", "l", "y", " ", "\n">>,
               <<"C", "e", "m", "e", "n", "t", " ", "n", "e", "e", "d", "e", "d", " ", "b", "y", " ", "s", "i", "t", "e", " ", "A", "\n">>, <<"4", "0", " ", "u", "n", "i", "t", "s", " ", "o", "f", " ", "s", "a", "n", "d", " ", "f", "o", "r", " ", "s", "i", "t", "e", " ", "B">> }

Files == UNION { [1..n -> FileLines] : n \in 0..MaxLines }

Bare(b) == [wrap |-> "bare", body |-> b]
Fenced(b) == [wrap |-> "fenced", body |-> b]
InProse(b) == [wrap |-> "prose", body |-> b]

Steel == [material_name |-> Str(<<"S", "t", "e", "e", "l">>), quantity |-> Num(10), unit |-> Str(<<"b", "a", "g", "s">>),
          project_name |-> None, location |-> None, urgency |-> Str(<<"l", "o", "w">>),
          deadline |-> None]

\* answers of the collaborator: well-formed, wrapped, partial, ill-typed, garbage
Responses == {
    Bare(Obj([Steel EXCEPT !.deadline = Str(<<"2", "0", "2", "4", "-", "0", "3", "-", "0", "4">>)])),
    Fenced(Obj(Steel)),
    Fenced(Obj([material_name |-> Str(<<"C", "e", "m", "e", "n", "t">>), urgency |-> Str(<<"h", "i", "g", "h">>),
                notes |-> Str(<<"c", "a", "l", "l", " ", "f", "i", "r", "s", "t">>), deadline |-> Str(<<"2", "1", "-", "0", "3", "-", "2", "0", "2", "4">>)])),
    InProse(Obj([material_name |-> Str(<<"S", "a", "n", "d">>), quantity |-> Str(<<"4", "0">>),
                 project_name |-> Obj([notes |-> Str(<<"s", "i", "t", "e", " ", "B">>)])])),
    InProse(Obj([notes |-> Obj([confidence |-> Obj([quantity |-> Num(3)])])])),
    Fenced(List(<<Obj([unit |-> Str(<<"k", "g">>)])>>)),
    InProse(NoJson),
    Fenced(Broken),
    Bare(Obj(<<>>)),
    Bare(Num(5)),
    Bare(List(<<Num(1), Num(2)>>)),
    Bare(Str(<<"m", "a", "t", "e", "r", "i", "a", "l", "_", "n", "a", "m", "e", ":", " ", "n", "o", "n", "e">>)),
    Bare(Obj([Steel EXCEPT !.deadline = Num(20240315)])),
    Bare(Obj([Steel EXCEPT !.material_name = Num(42)])),
    Bare(Obj([Steel EXCEPT !.location = List(<<Str(<<"u", "r", "g", "e", "n", "c", "y", ":", " ", "h", "i", "g", "h">>)>>)])),
    Bare(Obj([Steel EXCEPT !.quantity = Num(-5), !.urgency = Str(<<"h", "i", "g", "h">>)])) }

Init ==
    /\ pc = "read"
    /\ now \in { [ord |-> Ordinal(2024, 3, 1), secs |-> 37800] }
    /\ lines \in Files
    /\ idx = 0
    /\ results = <<>>
    /\ TextIdle
    /\ DateIdle /\ EnforceIdle /\ UrgencyIdle

\* the loop of process_file passes a blank line or a comment
SkipLine ==
    /\ pc = "read"
    /\ idx < Len(lines)
    /\ Skipped(Strip(lines[idx + 1]))
    /\ idx' = idx + 1
    /\ UNCHANGED <<pc, now, lines, results, textVars, dateVars, enforceVars, urgencyVars>>

\* the loop of process_file calls process_text(line)
StartLine ==
    /\ pc = "read"
    /\ idx < Len(lines)
    /\ ~Skipped(Strip(lines[idx + 1]))
    /\ idx' = idx + 1
    /\ input_text' = Strip(lines[idx + 1])
    /\ pc' = "call"
    /\ UNCHANGED <<now, lines, results, llm_response, extracted_data, result, exc,
                   dateVars, enforceVars, urgencyVars>>

\* step 1: the collaborator (or the mock standing in for it) answers with a text
call_llm ==
    /\ pc = "call"
    /\ llm_response' \in Responses
    /\ pc' = "parse"
    /\ UNCHANGED <<now, fileVars, input_text, extracted_data, result, exc,
                   dateVars, enforceVars, urgencyVars>>

\* step 2: parse the answer, with the fallback record for a falsy result
ExtractJson ==
    /\ pc = "parse"
    /\ extracted_data' = LET e == extract_json_from_text(llm_response)
                         IN  IF Truthy(e) THEN e ELSE DefaultRecord
    /\ pc' = "enforce"
    /\ UNCHANGED <<now, fileVars, input_text, llm_response, result, exc,
                   dateVars, enforceVars, urgencyVars>>

\* step 3: enforce the schema; an exception of enforce_schema leaves process_text
EnforceSchema ==
    /\ pc = "enforce"
    /\ exc' = enforce_schema(extracted_data).exc
    /\ result' = IF exc' = "none" THEN enforce_schema(extracted_data).val ELSE result
    /\ pc' = IF exc' = "none" THEN "infer" ELSE "raised"
    /\ UNCHANGED <<now, fileVars, input_text, llm_response, extracted_data,
                   dateVars, enforceVars, urgencyVars>>

\* step 4 left out: the urgency of the enforcer is kept
ReInferUrgency_skipped ==
    /\ pc = "infer"
    /\ pc' = "validate"
    /\ UNCHANGED <<now, fileVars, textVars, dateVars, enforceVars, urgencyVars>>

\* step 4: result["urgency"] = infer_urgency(input_text, result["deadline"])
ReInferUrgency ==
    /\ pc = "infer"
    /\ result' = Obj([result.m EXCEPT
                        !.urgency = Str(infer_urgency(input_text, result.m.deadline, now))])
    /\ pc' = "validate"
    /\ UNCHANGED <<now, fileVars, input_text, llm_response, extracted_data, exc,
                   dateVars, enforceVars, urgencyVars>>

\* step 5: the record passes validation and is returned
ValidateOk ==
    /\ pc = "validate"
    /\ Invalid(result) = {}
    /\ pc' = "returned"
    /\ UNCHANGED <<now, fileVars, textVars, dateVars, enforceVars, urgencyVars>>

\* step 5: validation fails on some property; the record is returned all the
\* same, its urgency reset when the error text mentions "urgency"
ValidateFailed ==
    /\ pc = "validate"
    /\ \E f \in Invalid(result) :
          result' = IF MentionsUrgency(result.m[f])
                    THEN Obj([result.m EXCEPT !.urgency = Str(<<"l", "o", "w">>)])
                    ELSE result
    /\ pc' = "returned"
    /\ UNCHANGED <<now, fileVars, input_text, llm_response, extracted_data, exc,
                   dateVars, enforceVars, urgencyVars>>

\* process_file keeps the record with the line it came from
AppendResult ==
    /\ pc = "returned"
    /\ results' = Append(results, WithInput(result, input_text))
    /\ input_text' = <<>> /\ llm_response' = None /\ extracted_data' = None
    /\ result' = None /\ exc' = "none"
    /\ pc' = "read"
    /\ UNCHANGED <<now, lines, idx, dateVars, enforceVars, urgencyVars>>

\* process_file without the try block: the exception ends the run
CatchError_abort ==
    /\ pc = "raised"
    /\ pc' = "done"
    /\ UNCHANGED <<now, fileVars, textVars, dateVars, enforceVars, urgencyVars>>

\* except Exception: the error entry replaces the record of the line
CatchError ==
    /\ pc = "raised"
    /\ results' = Append(results, ErrorEntry(input_text, exc))
    /\ input_text' = <<>> /\ llm_response' = None /\ extracted_data' = None
    /\ result' = None /\ exc' = "none"
    /\ pc' = "read"
    /\ UNCHANGED <<now, lines, idx, dateVars, enforceVars, urgencyVars>>

\* after the last line the results are written
WriteResults ==
    /\ pc = "read"
    /\ idx = Len(lines)
    /\ pc' = "done"
    /\ UNCHANGED <<now, fileVars, textVars, dateVars, enforceVars, urgencyVars>>

Next ==
    \/ SkipLine \/ StartLine
    \/ call_llm \/ ExtractJson \/ EnforceSchema \/ ReInferUrgency
    \/ ValidateOk \/ ValidateFailed
    \/ AppendResult \/ CatchError
    \/ WriteResults

Spec == Init /\ [][Next]_vars

----------------------------------------------------------------------------
(* Claims about process_text, at the point where it returns or raises *)

\* C1: whatever the collaborator answers, process_text returns a record: no
\* exception leaves it.
C1_NeverRaises == pc # "raised" /\ exc = "none"

\* C2: the record process_text returns has exactly the seven keys of the schema,
\* whatever keys the collaborator's JSON had.
C2_SevenKeys ==
    pc = "returned" => result.t = "obj" /\ DOMAIN result.m = FieldSet

\* the answer lacked quantity and carried the unknown key notes
C2_Witness ==
    /\ pc = "returned"
    /\ extracted_data.t = "obj"
    /\ "notes" \in DOMAIN extracted_data.m
    /\ "quantity" \notin DOMAIN extracted_data.m

\* C3: in the record process_text returns, material_name and unit are strings,
\* project_name, location and deadline are strings or null, and urgency is one
\* of low, medium, high.
C3_TypesConform ==
    pc = "returned" =>
        \A f \in FieldSet \ {"quantity"} : TypeOk(f, result.m[f])

\* the answer no strategy of extract_json_from_text reads JSON from
Unparseable == llm_response # None /\ extract_json_from_text(llm_response) = None

\* C7 as stated: for an unparseable answer the record returned is the all-default
\* record, urgency "low" included, for every input text.
C7_AllDefault ==
    pc = "returned" /\ Unparseable => result = DefaultRecord

\* the urgency the keywords of a text give when there is no deadline
KeywordUrgency(txt) ==
    IF AnyKeyword(Lower(txt), high_keywords) THEN <<"h", "i", "g", "h">>
    ELSE IF AnyKeyword(Lower(txt), medium_keywords) THEN <<"m", "e", "d", "i", "u", "m">>
    ELSE <<"l", "o", "w">>

\* C7 amended: for an unparseable answer the record returned is the all-default
\* record except for urgency, which is what the keywords of the input text give:
\* high, medium, or low when the text has none.
C7_DefaultButUrgency ==
    pc = "returned" /\ Unparseable =>
        result = Obj([DefaultRecord.m EXCEPT !.urgency = Str(KeywordUrgency(input_text))])

\* an unparseable answer to a text with a high-urgency keyword
C7_Witness ==
    /\ pc = "returned"
    /\ Unparseable
    /\ Contains(Lower(input_text), <<"u", "r", "g", "e", "n", "t">>)
    /\ result.m.urgency = Str(<<"h", "i", "g", "h">>)
    /\ result.m.material_name = Str(<<"U", "n", "k", "n", "o", "w", "n">>)

\* C9: the urgency of the record returned is the classifier's result on the input
\* text and the enforced deadline; for a text containing "urgent" it is "high".
C9_RuleBasedUrgency ==
    pc = "returned" =>
        /\ result.m.urgency = Str(infer_urgency(input_text, result.m.deadline, now))
        /\ Contains(Lower(input_text), <<"u", "r", "g", "e", "n", "t">>) => result.m.urgency = Str(<<"h", "i", "g", "h">>)

----------------------------------------------------------------------------
(* Claims about process_file *)

\* the lines of the file the loop does not skip
Kept(ls) == SelectSeq(ls, LAMBDA l : ~Skipped(Strip(l)))

\* a line without its line terminator
Chomp(l) == IF l # <<>> /\ l[Len(l)] = "\n" THEN SubSeq(l, 1, Len(l) - 1) ELSE l

EntryOk(e) ==
    \/ DOMAIN e.m = FieldSet \cup {"_input"}
    \/ /\ DOMAIN e.m = FieldSet \cup {"_input", "_error"}
       /\ e.m["_error"].t = "str" /\ e.m["_error"].s # <<>>
       /\ \A f \in FieldSet : e.m[f] = DefaultRecord.m[f]

\* the entries written so far: one per line read and not skipped, in order
EntriesMatch ==
    pc \in {"read", "done"} =>
        /\ Len(results) = Len(Kept(SubSeq(lines, 1, idx)))
        /\ \A k \in 1..Len(results) :
              /\ results[k].m["_input"] = Str(Strip(Kept(lines)[k]))
              /\ EntryOk(results[k])
        /\ pc = "done" => idx = Len(lines)

\* a step leaves the entries of the earlier lines as they are, and a line whose
\* processing raised gets the error entry while the loop goes on
Isolated ==
    /\ Len(results') >= Len(results)
    /\ SubSeq(results', 1, Len(results)) = results
    /\ pc = "raised" =>
          /\ results' = Append(results, ErrorEntry(input_text, exc))
          /\ pc' = "read"

====
